---- MODULE Spec2Model ----
(***************************************************************************)
(* desktop-background: the clock-image renderer.                           *)
(*                                                                         *)
(* Two renderers are modelled side by side:                                *)
(*   impl = "main"   src/src/main.rs   (cache pre-filled at construction,  *)
(*                                      look-ahead of K-1 steps)           *)
(*   impl = "render" src/src/render.rs (incremental evict/prefetch cache)  *)
(*                                                                         *)
(* Strings are sequences of one-character strings.  Real numbers are exact *)
(* rationals <<numerator, denominator>> (the f32 roundings of the program  *)
(* are not modelled).  Every clock_step of the model is small enough that  *)
(* clock_step * 9 and slot + clock_step stay below 2^31, so none of the    *)
(* u32 additions and multiplications of the program overflows here; the    *)
(* u32 subtraction of main.rs is modelled with its width.                  *)
(***************************************************************************)
EXTENDS Integers, Sequences, FiniteSets, TLC

VARIABLES
    impl,             \* which renderer is built: "main" or "render"
    overflow_checks,  \* the build: TRUE panics on u32 overflow, FALSE wraps
    background,       \* the command: Background (main.rs 43-69)
    now,              \* the local wall clock [hour, minute, second, ms]
    renderer,         \* BackgroundRenderer, or Absent before construction
    pixels,           \* the output pixel buffer (Pixels::frame_mut)
    last,             \* what the last operation did (observations)
    exited,           \* the process / event loop has ended
    elapsed,          \* wall-clock time passed since Init, in half steps
    terminated        \* main has returned or the process was aborted

vars == <<impl, overflow_checks, background, now, renderer, pixels, last,
          exited, elapsed, terminated>>

-----------------------------------------------------------------------------
(* Program constants *)

PRE_BUFFERED_IMAGES == 10
MILLIS_PER_SECOND == 1000
MILLIS_PER_MINUTE == 60 * MILLIS_PER_SECOND
MILLIS_PER_HOUR == 60 * MILLIS_PER_MINUTE
MILLIS_TOTAL == 12 * MILLIS_PER_HOUR
MillisPerDay == 24 * MILLIS_PER_HOUR

(* Bounds of the model *)

\* wall-clock time explored after Init, counted in half clock steps
MaxElapsed == 26
\* the desktop resolution (Args.width, Args.height), in pixels
Width == 2
Height == 1

-----------------------------------------------------------------------------
(* Strings *)

LowerCase == <<"a","b","c","d","e","f","g","h","i","j","k","l","m",
               "n","o","p","q","r","s","t","u","v","w","x","y","z">>
UpperCase == <<"A","B","C","D","E","F","G","H","I","J","K","L","M",
               "N","O","P","Q","R","S","T","U","V","W","X","Y","Z">>
DecDigits == <<"0","1","2","3","4","5","6","7","8","9">>

\* the position of c in seq, or 0
IndexIn(c, seq) ==
    IF \E i \in 1..Len(seq) : seq[i] = c
    THEN CHOOSE i \in 1..Len(seq) : seq[i] = c
    ELSE 0

\* char::to_uppercase on the characters of the model (ASCII)
char_to_uppercase(c) ==
    IF IndexIn(c, LowerCase) > 0 THEN UpperCase[IndexIn(c, LowerCase)] ELSE c

\* str::to_uppercase
to_uppercase(s) == [i \in 1..Len(s) |-> char_to_uppercase(s[i])]

\* char::to_digit(16): the digit's value, or -1
to_digit16(c) ==
    IF IndexIn(c, DecDigits) > 0 THEN IndexIn(c, DecDigits) - 1
    ELSE IF IndexIn(c, LowerCase) \in 1..6 THEN 9 + IndexIn(c, LowerCase)
    ELSE IF IndexIn(c, UpperCase) \in 1..6 THEN 9 + IndexIn(c, UpperCase)
    ELSE -1

RECURSIVE digits_value(_, _)
\* the accumulation loop of from_str_radix: result * 16 + digit, left to right
digits_value(ds, acc) ==
    IF ds = <<>> THEN acc
    ELSE digits_value(Tail(ds), acc * 16 + to_digit16(Head(ds)))

\* u32::from_str_radix(s, 16) for the strings of at most 6 bytes that reach it:
\* an optional + sign, then one or more digits ("-" is no sign of an
\* unsigned type).  [ok, val]
from_str_radix16(s) ==
    IF s = <<>> THEN [ok |-> FALSE, val |-> 0]
    ELSE IF Len(s) = 1 /\ s[1] \in {"+", "-"} THEN [ok |-> FALSE, val |-> 0]
    ELSE LET ds == IF s[1] = "+" THEN Tail(s) ELSE s
         IN  IF \A i \in 1..Len(ds) : to_digit16(ds[i]) >= 0
             THEN [ok |-> TRUE, val |-> digits_value(ds, 0)]
             ELSE [ok |-> FALSE, val |-> 0]

RECURSIVE decimal(_)
\* an unsigned integer in decimal, no padding
decimal(n) ==
    IF n < 10 THEN <<DecDigits[n + 1]>>
    ELSE decimal(n \div 10) \o <<DecDigits[(n % 10) + 1]>>

RECURSIVE pad_zero(_, _)
\* format!("{:0w}"): zeros on the left up to a width of w, never a cut
pad_zero(s, w) == IF Len(s) >= w THEN s ELSE pad_zero(<<"0">> \o s, w)

\* format!("{millis:08}")
format_millis08(millis) == pad_zero(decimal(millis), 8)

RECURSIVE replace_pm(_, _)
\* str::replace("%m", with): every non-overlapping match, left to right
replace_pm(s, with) ==
    IF Len(s) < 2 THEN s
    ELSE IF s[1] = "%" /\ s[2] = "m"
         THEN with \o replace_pm(SubSeq(s, 3, Len(s)), with)
         ELSE <<s[1]>> \o replace_pm(Tail(s), with)

-----------------------------------------------------------------------------
(* The wall clock *)

\* Local::now() as milliseconds of the day
DayMillis(t) ==
    t.hour * MILLIS_PER_HOUR + t.minute * MILLIS_PER_MINUTE
        + t.second * MILLIS_PER_SECOND + t.ms

\* the wall clock d milliseconds after t
ClockAfter(t, d) ==
    LET m == (DayMillis(t) + d) % MillisPerDay
    IN  [hour   |-> m \div MILLIS_PER_HOUR,
         minute |-> (m \div MILLIS_PER_MINUTE) % 60,
         second |-> (m \div MILLIS_PER_SECOND) % 60,
         ms     |-> m % MILLIS_PER_SECOND]

\* clock_millis on the 24-hour clock: the hour is not reduced modulo 12
clock_millis_24h(clock_step, t) ==
    ((t.hour * MILLIS_PER_HOUR
        + t.minute * MILLIS_PER_MINUTE
        + t.second * MILLIS_PER_SECOND
        + t.ms)
        \div clock_step)
        * clock_step

\* clock_millis(clock_step) read at wall-clock time t
clock_millis(clock_step, t) ==
    (((t.hour % 12) * MILLIS_PER_HOUR
        + t.minute * MILLIS_PER_MINUTE
        + t.second * MILLIS_PER_SECOND
        + t.ms)
        \div clock_step)
        * clock_step

-----------------------------------------------------------------------------
(* Options, rationals, images *)

None == <<>>
Some(x) == <<x>>

\* a real number num/den, den > 0
Ratio(num, den) == <<num, den>>

\* the characters of the paths
PathAlphabet == DecDigits \o LowerCase \o <<"/", "_", ".", "%", "-">>

PathCode ==
    [c \in {PathAlphabet[i] : i \in 1..Len(PathAlphabet)} |->
        IndexIn(c, PathAlphabet)]

RECURSIVE path_hash(_, _, _)
\* a number that tells the paths apart
path_hash(path, i, acc) ==
    IF i > Len(path) THEN acc
    ELSE path_hash(path, i + 1, (acc * 31 + PathCode[path[i]]) % 65521)

\* n bytes drawn from a number
image_bytes(h, n) == [i \in 1..n |-> ((h \div i) + 37 * i) % 256]

\* The image loader (image::open, then imageops::resize to width x height):
\* the RGBA bytes stored under a path, width * height * 4 of them.  Every
\* file has its own content, and alpha is not always 255.
file_image(path, width, height) ==
    image_bytes(path_hash(path, 1, 7), width * height * 4)

\* the path with the milliseconds not padded
clock_image_path_unpadded(dir, file_template, millis) ==
    dir \o <<"/">> \o decimal(millis \div MILLIS_PER_HOUR) \o <<"/">>
        \o replace_pm(file_template, decimal(millis))

\* load_clock_image: the path it asks the image loader for
clock_image_path(dir, file_template, millis) ==
    dir \o <<"/">> \o decimal(millis \div MILLIS_PER_HOUR) \o <<"/">>
        \o replace_pm(file_template, format_millis08(millis))

\* load_clock_image when the file can be opened and decoded
load_clock_image(dir, file_template, millis, width, height) ==
    file_image(clock_image_path(dir, file_template, millis), width, height)

\* one request to the image loader, as observed
Request(dir, file_template, millis) ==
    [millis |-> millis, path |-> clock_image_path(dir, file_template, millis)]

-----------------------------------------------------------------------------
(* VecDeque: front is the head of the sequence, back is its last element *)

push_front(q, x) == <<x>> \o q
pop_back(q) == SubSeq(q, 1, Len(q) - 1)
front(q) == q[1]
back(q) == q[Len(q)]

-----------------------------------------------------------------------------
(* Tint *)

\* the three bytes taken in the order blue, green, red
parsed_bgr(parsed) ==
    <<Ratio(parsed % 256, 255),
      Ratio((parsed \div 256) % 256, 255),
      Ratio((parsed \div 65536) % 256, 255)>>

\* the fixed tint of a parsed clock color: its three bytes over 255
parsed_rgb(parsed) ==
    <<Ratio((parsed \div 65536) % 256, 255),
      Ratio((parsed \div 256) % 256, 255),
      Ratio(parsed % 256, 255)>>

\* the clock_color match of into_renderer: [ok, err, rainbow, color]
parse_clock_color(clock_color) ==
    IF clock_color = None
    THEN [ok |-> TRUE, err |-> "", rainbow |-> FALSE, color |-> None]
    ELSE LET string == clock_color[1]
         IN  IF to_uppercase(string) = <<"R","A","I","N","B","O","W">>
             THEN [ok |-> TRUE, err |-> "", rainbow |-> TRUE, color |-> None]
             ELSE IF Len(string) > 6
             THEN [ok |-> FALSE, err |-> "bail", rainbow |-> FALSE, color |-> None]
             ELSE LET parsed == from_str_radix16(string)
                  IN  IF ~parsed.ok
                      THEN [ok |-> FALSE, err |-> "ParseIntError",
                            rainbow |-> FALSE, color |-> None]
                      ELSE [ok |-> TRUE, err |-> "", rainbow |-> FALSE,
                            color |-> Some(parsed_rgb(parsed.val))]

SectorMillis == MILLIS_TOTAL \div 6

\* Hsv::new(Deg(millis / MILLIS_TOTAL * 360), 1, 1).to_rgb(): the hue in
\* sixths of the circle is millis / SectorMillis
hsv_to_rgb(millis) ==
    LET cat  == (millis \div SectorMillis) % 6
        rem  == millis % SectorMillis
        v    == Ratio(SectorMillis, SectorMillis)
        pv   == Ratio(0, SectorMillis)
        qv   == Ratio(SectorMillis - rem, SectorMillis)
        tv   == Ratio(rem, SectorMillis)
    IN  CASE cat = 0 -> <<v, tv, pv>>
          [] cat = 1 -> <<qv, v, pv>>
          [] cat = 2 -> <<pv, v, tv>>
          [] cat = 3 -> <<pv, qv, v>>
          [] cat = 4 -> <<tv, pv, v>>
          [] cat = 5 -> <<v, pv, qv>>

\* the tint of a tick that ignores the rainbow flag
tick_color_fixed(rainbow, color, current_millis) == color

\* the tint of a tick: Some(rgb) or None
tick_color(rainbow, color, current_millis) ==
    IF rainbow THEN Some(hsv_to_rgb(current_millis)) ELSE color

-----------------------------------------------------------------------------
(* Compositor *)

\* (*src as f32 * c) as u8
tint_byte(src, c) == (src * c[1]) \div c[2]

\* a tinted branch that copies the alpha of the frame
composite_tint_src_alpha(dst, image, color) ==
    [i \in 1..Len(dst) |->
        IF i > Len(image) THEN dst[i]
        ELSE IF i % 4 = 0 THEN image[i]
        ELSE tint_byte(image[i], color[((i - 1) % 4) + 1])]

\* the tinted branch: zip of the output buffer and the frame, byte by byte
\* (idx is 0-based in the program, i = idx + 1 here)
composite_tint(dst, image, color) ==
    [i \in 1..Len(dst) |->
        IF i > Len(image) THEN dst[i]
        ELSE IF i % 4 = 0 THEN 255
        ELSE tint_byte(image[i], color[((i - 1) % 4) + 1])]

\* a copy that forces alpha to 255
composite_copy_opaque(dst, image) ==
    [i \in 1..Len(image) |-> IF i % 4 = 0 THEN 255 ELSE image[i]]

\* the untinted branch: copy_from_slice
composite_copy(dst, image) == image

\* the compositing of a tick
composite(dst, image, tint) ==
    IF tint # None THEN composite_tint(dst, image, tint[1])
    ELSE composite_copy(dst, image)

-----------------------------------------------------------------------------
(* BackgroundRenderer *)

Absent == [kind |-> "Absent"]
NoRenderer == [kind |-> "None"]

ClockImage(bg, buffered_images, rainbow, color) ==
    [kind |-> "ClockImage", dir |-> bg.dir, file_template |-> bg.file_template,
     clock_step |-> bg.clock_step, buffered_images |-> buffered_images,
     rainbow |-> rainbow, color |-> color]

\* what an operation is observed to do
Observed(op, result, millis, target, loads, tint, wrote) ==
    [op |-> op, result |-> result, millis |-> millis, target |-> target,
     loads |-> loads, tint |-> tint, wrote |-> wrote]

\* VecDeque filled by n push_front of the same entry
RECURSIVE pre_fill(_, _, _)
pre_fill(q, entry, n) ==
    IF n = 0 THEN q ELSE pre_fill(push_front(q, entry), entry, n - 1)

\* into_renderer once the clock color is parsed: the first frame is loaded
\* at wall-clock time t and fills the cache.  [renderer, obs]
fill_renderer(bg, parsed, width, height, t, fail) ==
    LET millis == clock_millis(bg.clock_step, t)
        req    == Request(bg.dir, bg.file_template, millis)
        image  == load_clock_image(bg.dir, bg.file_template, millis,
                                   width, height)
    IN  IF fail
        THEN [renderer |-> Absent,
              obs |-> Observed("into_renderer", "ImageError", millis, millis,
                               <<req>>, None, FALSE)]
        ELSE [renderer |->
                  ClockImage(bg,
                      pre_fill(<<>>, <<millis, image>>, PRE_BUFFERED_IMAGES),
                      parsed.rainbow, parsed.color),
              obs |-> Observed("into_renderer", "Ok", millis, millis,
                               <<req>>, None, FALSE)]

\* into_renderer loading the first frame before it looks at the clock color
into_renderer_load_first(bg, width, height, t, fail) ==
    LET parsed == parse_clock_color(bg.clock_color)
        got    == fill_renderer(bg, parsed, width, height, t, fail)
    IN  IF got.obs.result # "Ok" \/ parsed.ok THEN got
        ELSE [renderer |-> Absent,
              obs |-> [got.obs EXCEPT !.result = parsed.err]]

\* Background::into_renderer at wall-clock time t; fail: the image cannot be
\* opened.  [renderer, obs]
into_renderer(bg, width, height, t, fail) ==
    IF bg.kind = "StaticImage"
    THEN LET req == [millis |-> -1, path |-> bg.path]
         IN  IF fail
             THEN [renderer |-> Absent,
                   obs |-> Observed("into_renderer", "ImageError", -1, -1,
                                    <<req>>, None, FALSE)]
             ELSE [renderer |-> [kind |-> "StaticImage",
                                 image |-> file_image(bg.path, width, height)],
                   obs |-> Observed("into_renderer", "Ok", -1, -1,
                                    <<req>>, None, FALSE)]
    ELSE LET parsed == parse_clock_color(bg.clock_color)
         IN  IF ~parsed.ok
             THEN [renderer |-> Absent,
                   obs |-> Observed("into_renderer", parsed.err, -1, -1,
                                    <<>>, None, FALSE)]
             ELSE fill_renderer(bg, parsed, width, height, t, fail)

\* The u32 comparison a - b >= s of a build that wraps, for a < b:
\* a - b + 2^32 >= s, computed without leaving 31 bits
wrapping_sub_ge(a, b, s) ==
    IF a >= b THEN a - b >= s
    ELSE (s - (a - b) - 1) \div 65536 < 65536

\* room is made only once the cache is over its capacity
pop_if_over(q) == IF Len(q) > PRE_BUFFERED_IMAGES THEN pop_back(q) ELSE q

\* the cache of main.rs makes room for one more frame
pop_if_full(q) == IF Len(q) >= PRE_BUFFERED_IMAGES THEN pop_back(q) ELSE q

\* a static tick that reads the image file again
render_static_reload(r, px) ==
    [renderer |-> r, pixels |-> composite_copy(px, r.image),
     obs |-> Observed("render", "Ok", -1, -1,
                      <<[millis |-> -1, path |-> <<>>]>>, None, TRUE)]

\* the StaticImage arm of render (main.rs): the stored image is copied
render_static(r, px) ==
    [renderer |-> r, pixels |-> composite_copy(px, r.image),
     obs |-> Observed("render", "Ok", -1, -1, <<>>, None, TRUE)]

\* BackgroundRenderer::render of main.rs at wall-clock time t; fail: the
\* image cannot be opened; checks: the build panics on u32 overflow.
\* [renderer, pixels, obs]
render_main(r, px, width, height, t, fail, checks) ==
    IF r.kind = "StaticImage" THEN render_static(r, px)
    ELSE
    LET millis == clock_millis(r.clock_step, t)
        current_millis ==
            (millis + r.clock_step * (PRE_BUFFERED_IMAGES - 1)) % MILLIS_TOTAL
        q == r.buffered_images
    IN  IF q = <<>>
        THEN [renderer |-> r, pixels |-> px,
              obs |-> Observed("render", "Panic", millis, current_millis,
                               <<>>, None, FALSE)]
        ELSE IF current_millis < front(q)[1] /\ checks
        THEN [renderer |-> r, pixels |-> px,
              obs |-> Observed("render", "Panic", millis, current_millis,
                               <<>>, None, FALSE)]
        ELSE
        LET load   == wrapping_sub_ge(current_millis, front(q)[1], r.clock_step)
            popped == IF load THEN pop_if_full(q) ELSE q
            req    == Request(r.dir, r.file_template, current_millis)
            image  == load_clock_image(r.dir, r.file_template, current_millis,
                                       width, height)
            loads  == IF load THEN <<req>> ELSE <<>>
        IN  IF load /\ fail
            THEN [renderer |-> [r EXCEPT !.buffered_images = popped],
                  pixels |-> px,
                  obs |-> Observed("render", "ImageError", millis,
                                   current_millis, loads, None, FALSE)]
            ELSE
            LET q2   == IF load THEN push_front(popped, <<current_millis, image>>)
                        ELSE q
                tint == tick_color(r.rainbow, r.color, current_millis)
            IN  [renderer |-> [r EXCEPT !.buffered_images = q2],
                 pixels |-> composite(px, back(q2)[2], tint),
                 obs |-> Observed("render", "Ok", millis, current_millis,
                                  loads, tint, TRUE)]

\* u32::abs_diff
abs_diff(a, b) == IF a >= b THEN a - b ELSE b - a

RECURSIVE evict_beyond_step(_, _, _)
\* eviction that keeps a back entry exactly one step away
evict_beyond_step(q, current_millis, clock_step) ==
    IF q # <<>> /\ abs_diff(back(q)[1], current_millis) > clock_step
    THEN evict_beyond_step(pop_back(q), current_millis, clock_step)
    ELSE q

RECURSIVE evict(_, _, _)
\* the first loop of render (render.rs): pop_back while the back is stale
evict(q, current_millis, clock_step) ==
    IF q # <<>> /\ abs_diff(back(q)[1], current_millis) >= clock_step
    THEN evict(pop_back(q), current_millis, clock_step)
    ELSE q

\* the next slot counted from the back of the cache instead of its front
next_image_millis_from_back(q, clock_step, current_millis) ==
    IF q # <<>> THEN (back(q)[1] + clock_step) % MILLIS_TOTAL
    ELSE current_millis

\* the next slot not reduced modulo the 12-hour cycle
next_image_millis_no_wrap(q, clock_step, current_millis) ==
    IF q # <<>> THEN front(q)[1] + clock_step
    ELSE current_millis

\* the slot the second loop of render (render.rs) loads next
next_image_millis(q, clock_step, current_millis) ==
    IF q # <<>> THEN (front(q)[1] + clock_step) % MILLIS_TOTAL
    ELSE current_millis

RECURSIVE prefetch_push_failed(_, _, _, _, _, _, _)
\* a second loop that pushes an entry for the slot whose load failed
prefetch_push_failed(q, loads, r, current_millis, width, height, fail_at) ==
    IF Len(q) >= PRE_BUFFERED_IMAGES THEN [q |-> q, loads |-> loads, ok |-> TRUE]
    ELSE LET image_millis ==
                 next_image_millis(q, r.clock_step, current_millis)
             req == Request(r.dir, r.file_template, image_millis)
         IN  IF Len(loads) + 1 = fail_at
             THEN [q |-> push_front(q, <<image_millis, <<>> >>),
                   loads |-> Append(loads, req), ok |-> FALSE]
             ELSE prefetch_push_failed(
                     push_front(q, <<image_millis,
                         load_clock_image(r.dir, r.file_template, image_millis,
                                          width, height)>>),
                     Append(loads, req), r, current_millis, width, height,
                     fail_at)

RECURSIVE prefetch_one_more(_, _, _, _, _, _, _)
\* a second loop that stops only above PRE_BUFFERED_IMAGES entries
prefetch_one_more(q, loads, r, current_millis, width, height, fail_at) ==
    IF Len(q) > PRE_BUFFERED_IMAGES THEN [q |-> q, loads |-> loads, ok |-> TRUE]
    ELSE LET image_millis ==
                 next_image_millis(q, r.clock_step, current_millis)
             req == Request(r.dir, r.file_template, image_millis)
         IN  IF Len(loads) + 1 = fail_at
             THEN [q |-> q, loads |-> Append(loads, req), ok |-> FALSE]
             ELSE prefetch_one_more(
                     push_front(q, <<image_millis,
                         load_clock_image(r.dir, r.file_template, image_millis,
                                          width, height)>>),
                     Append(loads, req), r, current_millis, width, height,
                     fail_at)

RECURSIVE prefetch(_, _, _, _, _, _, _)
\* the second loop of render (render.rs): load and push_front up to
\* PRE_BUFFERED_IMAGES entries; fail_at: which load of the tick fails (0: none).
\* [q, loads, ok]
prefetch(q, loads, r, current_millis, width, height, fail_at) ==
    IF Len(q) >= PRE_BUFFERED_IMAGES THEN [q |-> q, loads |-> loads, ok |-> TRUE]
    ELSE LET image_millis ==
                 next_image_millis(q, r.clock_step, current_millis)
             req == Request(r.dir, r.file_template, image_millis)
         IN  IF Len(loads) + 1 = fail_at
             THEN [q |-> q, loads |-> Append(loads, req), ok |-> FALSE]
             ELSE prefetch(
                     push_front(q, <<image_millis,
                         load_clock_image(r.dir, r.file_template, image_millis,
                                          width, height)>>),
                     Append(loads, req), r, current_millis, width, height,
                     fail_at)

\* a render of render.rs that composites on every tick
render_incr_always_redraw(r, px, width, height, t, fail_at) ==
    IF r.kind = "None"
    THEN [renderer |-> r, pixels |-> px,
          obs |-> Observed("render", "Ok", -1, -1, <<>>, None, FALSE)]
    ELSE
    LET current_millis == clock_millis(r.clock_step, t)
        kept   == evict(r.buffered_images, current_millis, r.clock_step)
        filled == prefetch(kept, <<>>, r, current_millis, width, height, fail_at)
        r2     == [r EXCEPT !.buffered_images = filled.q]
        tint   == tick_color(r.rainbow, r.color, current_millis)
    IN  IF ~filled.ok
        THEN [renderer |-> r2, pixels |-> px,
              obs |-> Observed("render", "ImageError", current_millis,
                               current_millis, filled.loads, None, FALSE)]
        ELSE [renderer |-> r2,
              pixels |-> composite(px, back(filled.q)[2], tint),
              obs |-> Observed("render", "Ok", current_millis,
                               current_millis, filled.loads, tint, TRUE)]

\* BackgroundRenderer::render of render.rs at wall-clock time t.
\* [renderer, pixels, obs]
render_incr(r, px, width, height, t, fail_at) ==
    IF r.kind = "None"
    THEN [renderer |-> r, pixels |-> px,
          obs |-> Observed("render", "Ok", -1, -1, <<>>, None, FALSE)]
    ELSE
    LET current_millis == clock_millis(r.clock_step, t)
        kept   == evict(r.buffered_images, current_millis, r.clock_step)
        filled == prefetch(kept, <<>>, r, current_millis, width, height, fail_at)
        redraw == Len(kept) < PRE_BUFFERED_IMAGES
        r2     == [r EXCEPT !.buffered_images = filled.q]
    IN  IF ~filled.ok
        THEN [renderer |-> r2, pixels |-> px,
              obs |-> Observed("render", "ImageError", current_millis,
                               current_millis, filled.loads, None, FALSE)]
        ELSE IF redraw
        THEN LET tint == tick_color(r.rainbow, r.color, current_millis)
             IN  [renderer |-> r2,
                  pixels |-> composite(px, back(filled.q)[2], tint),
                  obs |-> Observed("render", "Ok", current_millis,
                                   current_millis, filled.loads, tint, TRUE)]
        ELSE [renderer |-> r2, pixels |-> px,
              obs |-> Observed("render", "Ok", current_millis, current_millis,
                               filled.loads, None, FALSE)]

-----------------------------------------------------------------------------
(* Inputs *)

Dir == <<"d","i","r">>
Template == <<"f","r","a","m","e","_","%","m",".","p","n","g">>
TwoTokens == <<"%","m","-","%","%","m">>
StaticPath == <<"a",".","p","n","g">>

StaticBackground == [kind |-> "StaticImage", path |-> StaticPath]

ClockBackground(file_template, clock_step, clock_color) ==
    [kind |-> "ClockImage", dir |-> Dir, file_template |-> file_template,
     clock_step |-> clock_step, clock_color |-> clock_color]

Time(h, m, s, ms) == [hour |-> h, minute |-> m, second |-> s, ms |-> ms]

Rainbow == Some(<<"r","A","i","N","b","O","w">>)
Green == Some(<<"8","0","f","f","0","0">>)
Invalid == Some(<<"G","G","G","G","G","G">>)
White == Some(<<"F","F","F","F","F","F">>)

\* The runs: a command and the wall-clock time at which the program starts.
\*   clock_step 100 (the default) from 03:25:45.700 and from 23:59:58.900,
\*     1.1 s before the 12-hour cycle wraps, under every kind of clock color;
\*   clock_step 100 with RAINBOW from 17:59:59.800;
\*   clock_step 100 with FFFFFF from 03:25:45.700;
\*   clock_step 7, which does not divide the cycle, from 23:59:59.923, with
\*     a template that holds %m twice;
\*   clock_step MILLIS_TOTAL / (PRE_BUFFERED_IMAGES - 1) from 23:59:59.800.
Runs ==
    {<<ClockBackground(Template, 100, c), t>> :
        c \in {None, Rainbow, Green, Invalid},
        t \in {Time(3, 25, 45, 700), Time(23, 59, 58, 900)}}
    \cup {<<ClockBackground(Template, 100, Rainbow), Time(17, 59, 59, 800)>>}
    \cup {<<ClockBackground(Template, 100, White), Time(3, 25, 45, 700)>>}
    \cup {<<ClockBackground(TwoTokens, 7, c), Time(23, 59, 59, 923)>> :
            c \in {None, Rainbow}}
    \cup {<<ClockBackground(Template,
                            MILLIS_TOTAL \div (PRE_BUFFERED_IMAGES - 1), c),
            Time(23, 59, 59, 800)>> : c \in {None, Green}}

\* time between two ticks, in half clock steps: no time, one step or
\* several steps and, for the cache of render.rs, half a step
HalfSteps(variant) == IF variant = "main" THEN {0, 2, 6} ELSE {0, 1, 2, 4}

\* the tick period unit of a background, in milliseconds
TickStep(bg) == IF bg.kind = "ClockImage" THEN bg.clock_step ELSE 32

\* clock colors given to into_renderer when it is checked alone
AllColors ==
    {None,
     Some(<<"R","A","I","N","B","O","W">>),
     Some(<<"r","a","i","n","b","o","w">>),
     Some(<<"R","a","I","n","B","o","W">>),
     Some(<<"R","A","I","N","B","O","W","S">>),
     Some(<<"R","A","I","N","B","O">>),
     Some(<<>>),
     Some(<<"0">>),
     Some(<<"F">>),
     Some(<<"f">>),
     Some(<<"f","f">>),
     Some(<<"a","b","c">>),
     Some(<<"1","2","a","B">>),
     Some(<<"F","e","D","c","b">>),
     Some(<<"1","A","2","b","3","C">>),
     Some(<<"F","F","F","F","F","F">>),
     Some(<<"0","0","0","0","0","0">>),
     Some(<<"8","0","f","f","0","0">>),
     Some(<<"0","1","0","2","0","3">>),
     Some(<<"F","F","F","F","F","F","F">>),
     Some(<<"1","2","3","4","5","6","7">>),
     Some(<<"G","G","G","G","G","G">>),
     Some(<<"1","2","G">>),
     Some(<<"g">>),
     Some(<<"+","F","F">>),
     Some(<<"+">>),
     Some(<<"-","1">>),
     Some(<<"-">>),
     Some(<<"+","1","2","3","4","5">>),
     Some(<<"+","1","2","3","4","5","6">>),
     Some(<<" ","F","F">>),
     Some(<<"0","x","1","0">>),
     Some(<<"#","F","F","F","F","F">>),
     Some(<<"f","f"," ","f","f">>)}

AllSteps == {1, 7, 100, 999, MILLIS_PER_HOUR, MILLIS_TOTAL, MILLIS_TOTAL + 1}

AllTemplates == {Template, TwoTokens, <<"c","l","o","c","k",".","p","n","g">>}

AllTimes ==
    {Time(h, c[1], c[2], c[3]) :
        h \in {0, 3, 11, 12, 23},
        c \in {<<0, 0, 0>>, <<25, 45, 700>>, <<59, 59, 0>>, <<59, 59, 999>>}}

-----------------------------------------------------------------------------
(* The program *)

BlankPixels == [i \in 1..(Width * Height * 4) |-> 0]

InitObserved == Observed("init", "Ok", -1, -1, <<>>, None, FALSE)

Init ==
    /\ impl \in {"main", "render"}
    /\ overflow_checks \in (IF impl = "main" THEN BOOLEAN ELSE {TRUE})
    /\ \E run \in Runs \cup (IF impl = "main"
                             THEN {<<StaticBackground, Time(3, 25, 45, 700)>>}
                             ELSE {}) :
         /\ background = run[1]
         /\ now = run[2]
    /\ renderer = IF impl = "main" THEN Absent ELSE NoRenderer
    /\ pixels = BlankPixels
    /\ last = InitObserved
    /\ exited = FALSE
    /\ elapsed = 0
    /\ terminated = FALSE

\* main (main.rs): the renderer is built from the command line; an error
\* ends the process
IntoRenderer ==
    /\ impl = "main"
    /\ ~exited
    /\ renderer = Absent
    /\ \E fail \in BOOLEAN :
         LET got == into_renderer(background, Width, Height, now, fail)
         IN  /\ renderer' = got.renderer
             /\ last' = got.obs
             /\ exited' = (got.obs.result # "Ok")
             /\ terminated' = (got.obs.result # "Ok")
    /\ UNCHANGED <<impl, overflow_checks, background, now, pixels, elapsed>>

\* the control channel's ClockImage command (render.rs): clock_color is
\* validated, then the renderer starts with an empty cache
SetBackground ==
    /\ impl = "render"
    /\ ~exited
    /\ renderer = NoRenderer
    /\ LET parsed == parse_clock_color(background.clock_color)
       IN  /\ renderer' = IF parsed.ok
                          THEN ClockImage(background, <<>>, parsed.rainbow,
                                          parsed.color)
                          ELSE renderer
           /\ last' = Observed("set_background",
                               IF parsed.ok THEN "Ok" ELSE parsed.err,
                               -1, -1, <<>>, None, FALSE)
           /\ exited' = ~parsed.ok
    /\ UNCHANGED <<impl, overflow_checks, background, now, pixels, elapsed,
                   terminated>>

\* the error closure of the RedrawRequested arm never asks the loop to exit
unwrap_or_continue(result) == result = "Panic"

\* renderer.render(..).unwrap_or_else(|e| { eprintln!("{e}"); elwt.exit() }):
\* whether the tick asks the event loop to exit (a panic ends the process)
unwrap_or_exit(result) == result # "Ok"

\* WindowEvent::RedrawRequested (main.rs): one tick, hs half clock steps
\* after the tick before; an error of render asks the event loop to exit
Redraw(hs) ==
    /\ impl = "main"
    /\ ~exited
    /\ renderer # Absent
    /\ \E h \in hs, fail \in BOOLEAN :
         /\ elapsed + h <= MaxElapsed
         /\ LET t   == ClockAfter(now, (h * TickStep(background)) \div 2)
                got == render_main(renderer, pixels, Width, Height, t, fail,
                                   overflow_checks)
            IN  /\ now' = t
                /\ elapsed' = elapsed + h
                /\ renderer' = got.renderer
                /\ pixels' = got.pixels
                /\ last' = got.obs
                /\ exited' = unwrap_or_exit(got.obs.result)
                /\ terminated' = (got.obs.result = "Panic")
    /\ UNCHANGED <<impl, overflow_checks, background>>

\* WindowEvent::RedrawRequested (main.rs) at the tick periods of the model
RedrawRequested == Redraw(HalfSteps(impl))

\* Event::LoopExiting (main.rs): after elwt.exit() the loop ends, run returns
\* and main returns
LoopExiting ==
    /\ impl = "main"
    /\ exited
    /\ ~terminated
    /\ terminated' = TRUE
    /\ UNCHANGED <<impl, overflow_checks, background, now, renderer, pixels,
                   last, exited, elapsed>>

\* one render tick of render.rs, after time has passed; an error ends the
\* session
RenderTick ==
    /\ impl = "render"
    /\ ~exited
    /\ \E h \in HalfSteps(impl), fail_at \in 0..PRE_BUFFERED_IMAGES :
         /\ elapsed + h <= MaxElapsed
         /\ renderer = NoRenderer => h = 0 /\ fail_at = 0
         /\ LET t   == ClockAfter(now, (h * TickStep(background)) \div 2)
                got == render_incr(renderer, pixels, Width, Height, t, fail_at)
            IN  /\ fail_at <= Len(got.obs.loads)
                /\ now' = t
                /\ elapsed' = elapsed + h
                /\ renderer' = got.renderer
                /\ pixels' = got.pixels
                /\ last' = got.obs
                /\ exited' = (got.obs.result # "Ok")
    /\ UNCHANGED <<impl, overflow_checks, background, terminated>>

Next ==
    IntoRenderer \/ SetBackground \/ RedrawRequested \/ RenderTick
        \/ LoopExiting

Spec == Init /\ [][Next]_vars

\* main.rs with a redraw at least once per clock step
InitSteady == Init /\ impl = "main"

NextSteady == IntoRenderer \/ Redraw({0, 1, 2}) \/ LoopExiting

SpecSteady == InitSteady /\ [][NextSteady]_vars

\* the event loop runs on: once exit is asked for, the loop does exit
SpecLive == SpecSteady /\ WF_vars(LoopExiting)

\* into_renderer alone, over many commands and wall-clock times
InitCmd ==
    /\ impl = "main"
    /\ overflow_checks = TRUE
    /\ background \in
         {ClockBackground(ft, st, c) :
            ft \in AllTemplates, st \in AllSteps, c \in AllColors}
    /\ now \in AllTimes
    /\ renderer = Absent
    /\ pixels = BlankPixels
    /\ last = InitObserved
    /\ exited = FALSE
    /\ elapsed = 0
    /\ terminated = FALSE

NextCmd == IntoRenderer

SpecCmd == InitCmd /\ [][NextCmd]_vars

-----------------------------------------------------------------------------
(* State shorthands *)

IsClock == renderer.kind = "ClockImage"
TickOk == last.op = "render" /\ last.result = "Ok"
ColorRejected == last.result \in {"bail", "ParseIntError"}

-----------------------------------------------------------------------------
(* C1 *)

\* C1: render.rs: after every render tick that returns Ok, the back entry of
\* buffered_images, the frame that is composited, has a slot less than
\* clock_step away from the tick's target slot.
C1_BackWithinStep ==
    (impl = "render" /\ IsClock /\ TickOk) =>
        /\ renderer.buffered_images # <<>>
        /\ abs_diff(back(renderer.buffered_images)[1], last.target)
             < renderer.clock_step

\* a tick after the 12-hour wrap that evicted and loaded
C1_Witness ==
    /\ impl = "render" /\ IsClock /\ TickOk
    /\ elapsed > 0
    /\ last.loads # <<>>
    /\ Len(last.loads) < PRE_BUFFERED_IMAGES
    /\ last.target < renderer.clock_step
    /\ back(renderer.buffered_images)[1] = last.target
    /\ now.hour = 0

(* C2 *)

\* C2: in both renderers the cache never holds more than
\* PRE_BUFFERED_IMAGES entries, and after every render tick that returns Ok
\* in clock mode it holds exactly PRE_BUFFERED_IMAGES entries.
C2_CacheSize ==
    IsClock =>
        /\ Len(renderer.buffered_images) <= PRE_BUFFERED_IMAGES
        /\ TickOk => Len(renderer.buffered_images) = PRE_BUFFERED_IMAGES

\* a tick of main.rs that popped the back and pushed a new front
C2_Witness ==
    /\ impl = "main" /\ IsClock /\ TickOk
    /\ last.loads # <<>>
    /\ Len(renderer.buffered_images) = PRE_BUFFERED_IMAGES
    /\ front(renderer.buffered_images)[1] = last.target
    /\ back(renderer.buffered_images)[1] # last.target

(* C3 *)

NoDuplicateSlots(q) ==
    \A i, j \in 1..Len(q) : i # j => q[i][1] # q[j][1]

\* C3 as claimed: render.rs: for every clock_step >= 1 no two entries of
\* buffered_images ever have the same slot.
C3_NoDuplicates ==
    (impl = "render" /\ IsClock) => NoDuplicateSlots(renderer.buffered_images)

\* C3, amended: render.rs: for every clock_step >= 1 with
\* (PRE_BUFFERED_IMAGES - 1) * clock_step < MILLIS_TOTAL no two entries of
\* buffered_images ever have the same slot.
C3_NoDuplicatesSmallStep ==
    (/\ impl = "render" /\ IsClock
     /\ (PRE_BUFFERED_IMAGES - 1) * renderer.clock_step < MILLIS_TOTAL)
        => NoDuplicateSlots(renderer.buffered_images)

\* a full cache whose prefetched slots run across the 12-hour wrap
C3_Witness ==
    /\ impl = "render" /\ IsClock /\ TickOk
    /\ (PRE_BUFFERED_IMAGES - 1) * renderer.clock_step < MILLIS_TOTAL
    /\ Len(renderer.buffered_images) = PRE_BUFFERED_IMAGES
    /\ front(renderer.buffered_images)[1] < back(renderer.buffered_images)[1]
    /\ NoDuplicateSlots(renderer.buffered_images)

(* C4 *)

HexDigitChars ==
    {"0","1","2","3","4","5","6","7","8","9",
     "a","b","c","d","e","f","A","B","C","D","E","F"}

IsRainbowToken(s) ==
    /\ Len(s) = 7
    /\ s[1] \in {"R","r"} /\ s[2] \in {"A","a"} /\ s[3] \in {"I","i"}
    /\ s[4] \in {"N","n"} /\ s[5] \in {"B","b"} /\ s[6] \in {"O","o"}
    /\ s[7] \in {"W","w"}

IsHexColor(s) ==
    /\ Len(s) \in 1..6
    /\ \A i \in 1..Len(s) : s[i] \in HexDigitChars

\* C4: a present clock_color passes the validation of into_renderer if and
\* only if it is RAINBOW in any letter case or 1 to 6 hexadecimal digits.
C4_ColorAcceptedIffValid ==
    (/\ last.op = "into_renderer"
     /\ background.kind = "ClockImage"
     /\ background.clock_color # None)
        => (~ColorRejected <=>
              \/ IsRainbowToken(background.clock_color[1])
              \/ IsHexColor(background.clock_color[1]))

(* C5 *)

\* C5: when into_renderer fails on the clock color, it has called the image
\* loader not once and has built no cache.
C5_RejectedBeforeCache ==
    (last.op = "into_renderer" /\ ColorRejected) =>
        /\ last.loads = <<>>
        /\ last.millis = -1
        /\ renderer = Absent

\* GGGGGG is rejected
C5_Witness ==
    /\ last.op = "into_renderer"
    /\ background.clock_color = Some(<<"G","G","G","G","G","G">>)
    /\ last.result = "ParseIntError"
    /\ last.loads = <<>>
    /\ exited

(* C6 *)

\* C6: clock_millis(step) is a multiple of step, lies in [0, MILLIS_TOTAL)
\* and is ((hour mod 12) * 3600000 + minute * 60000 + second * 1000 + ms)
\* floored to a multiple of step.
C6_ClockMillis ==
    (last.op = "into_renderer" /\ last.millis # -1) =>
        LET x == (now.hour % 12) * 3600000 + now.minute * 60000
                    + now.second * 1000 + now.ms
            step == background.clock_step
        IN  /\ last.millis % step = 0
            /\ last.millis >= 0 /\ last.millis < 43200000
            /\ last.millis <= x /\ x < last.millis + step

\* 23:59:59.999 with a step of 999: 43199999 is floored to 43199757
C6_Witness ==
    /\ last.op = "into_renderer"
    /\ now = Time(23, 59, 59, 999)
    /\ background.clock_step = 999
    /\ last.millis = 43199757

(* C7 *)

\* the name of an hour bucket 0..11
HourName(h) == IF h < 10 THEN <<DecDigits[h + 1]>> ELSE <<"1", DecDigits[h - 9]>>

\* the 8 decimal digits of a slot, most significant first
EightDigits(millis) ==
    [i \in 1..8 |-> DecDigits[((millis \div (10 ^ (8 - i))) % 10) + 1]]

\* the file name of a slot under the templates of the runs
FileName(file_template, millis) ==
    IF file_template = Template
    THEN <<"f","r","a","m","e","_">> \o EightDigits(millis) \o <<".","p","n","g">>
    ELSE EightDigits(millis) \o <<"-","%">> \o EightDigits(millis)

\* C7: every request to the image loader made in clock mode, at construction
\* and in render ticks, is for dir/{slot div 3600000}/{file_template with %m
\* replaced by the slot in 8 digits}, with the hour bucket in 0..11; slot
\* 12345700 with frame_%m.png loads dir/3/frame_12345700.png.
C7_LoadPath ==
    background.kind = "ClockImage" =>
        \A i \in 1..Len(last.loads) :
            LET req == last.loads[i]
            IN  /\ req.millis >= 0
                /\ (req.millis \div 3600000) \in 0..11
                /\ req.path = <<"d","i","r","/">>
                                \o HourName(req.millis \div 3600000) \o <<"/">>
                                \o FileName(background.file_template, req.millis)
                /\ (req.millis = 12345700 /\ background.file_template = Template)
                     => req.path = <<"d","i","r","/","3","/","f","r","a","m","e","_","1","2","3","4","5","7","0","0",".","p","n","g">>

\* the first render tick at 03:25:45.700 loads dir/3/frame_12345700.png
C7_Witness ==
    /\ last.op = "render"
    /\ last.loads # <<>>
    /\ last.loads[1] = [millis |-> 12345700, path |-> <<"d","i","r","/","3","/","f","r","a","m","e","_","1","2","3","4","5","7","0","0",".","p","n","g">>]

(* C8 *)

HexDigitValue(c) ==
    CASE c = "0" -> 0 [] c = "1" -> 1 [] c = "2" -> 2 [] c = "3" -> 3
      [] c = "4" -> 4 [] c = "5" -> 5 [] c = "6" -> 6 [] c = "7" -> 7
      [] c = "8" -> 8 [] c = "9" -> 9
      [] c \in {"a", "A"} -> 10 [] c \in {"b", "B"} -> 11
      [] c \in {"c", "C"} -> 12 [] c \in {"d", "D"} -> 13
      [] c \in {"e", "E"} -> 14 [] c \in {"f", "F"} -> 15

RECURSIVE HexValue(_)
\* the integer a string of hexadecimal digits denotes
HexValue(s) ==
    IF s = <<>> THEN 0
    ELSE 16 * HexValue(SubSeq(s, 1, Len(s) - 1)) + HexDigitValue(s[Len(s)])

\* C8: for a clock color of 1 to 6 hexadecimal digits of value v,
\* into_renderer builds the fixed tint ((v >> 16) & 0xFF) / 255,
\* ((v >> 8) & 0xFF) / 255, (v & 0xFF) / 255, each in [0, 1], and no rainbow.
C8_FixedTint ==
    (/\ last.op = "into_renderer" /\ last.result = "Ok"
     /\ background.kind = "ClockImage"
     /\ background.clock_color # None
     /\ IsHexColor(background.clock_color[1])) =>
        LET v == HexValue(background.clock_color[1])
        IN  /\ renderer.rainbow = FALSE
            /\ renderer.color =
                 Some(<< <<(v \div (2 ^ 16)) % (2 ^ 8), 255>>,
                         <<(v \div (2 ^ 8)) % (2 ^ 8), 255>>,
                         <<v % (2 ^ 8), 255>> >>)
            /\ \A k \in 1..3 :
                 /\ renderer.color[1][k][1] >= 0
                 /\ renderer.color[1][k][1] <= renderer.color[1][k][2]

\* 1A2b3C gives 26/255, 43/255, 60/255
C8_Witness ==
    /\ last.op = "into_renderer" /\ last.result = "Ok"
    /\ background.clock_color = Some(<<"1","A","2","b","3","C">>)
    /\ renderer.rainbow = FALSE
    /\ renderer.color = Some(<< <<26, 255>>, <<43, 255>>, <<60, 255>> >>)

(* C9 *)

IsOne(c) == c[1] = c[2]
IsZero(c) == c[1] = 0

\* the slot whose hue, 360 * slot / MILLIS_TOTAL degrees at full saturation
\* and value, is the colour rgb; -1 when rgb is no such colour
HueMillis(rgb) ==
    LET r == rgb[1]
        g == rgb[2]
        b == rgb[3]
        S == 7200000
    IN  IF \E k \in 1..3 : rgb[k][2] # S \/ rgb[k][1] < 0 \/ rgb[k][1] > S
        THEN -1
        ELSE CASE IsOne(r) /\ IsZero(b) /\ ~IsOne(g) -> g[1]
               [] IsOne(g) /\ IsZero(b) /\ ~IsZero(r) -> 2 * S - r[1]
               [] IsZero(r) /\ IsOne(g) /\ ~IsOne(b) -> 2 * S + b[1]
               [] IsZero(r) /\ IsOne(b) /\ ~IsZero(g) -> 4 * S - g[1]
               [] IsZero(g) /\ IsOne(b) /\ ~IsOne(r) -> 4 * S + r[1]
               [] IsOne(r) /\ IsZero(g) /\ ~IsZero(b) -> 6 * S - b[1]
               [] OTHER -> -1

\* the tint of the last tick is the rainbow colour of slot and is what the
\* output buffer was composited with
RainbowApplied(slot) ==
    /\ last.wrote
    /\ last.tint # None
    /\ HueMillis(last.tint[1]) = slot
    /\ slot = 0 => (IsOne(last.tint[1][1]) /\ IsZero(last.tint[1][2])
                      /\ IsZero(last.tint[1][3]))
    /\ slot = 21600000 => (IsZero(last.tint[1][1]) /\ IsOne(last.tint[1][2])
                             /\ IsOne(last.tint[1][3]))
    /\ pixels = composite_tint(pixels, back(renderer.buffered_images)[2],
                               last.tint[1])

C10_CopyExact ==
    (/\ IsClock /\ TickOk /\ last.wrote
     /\ ~renderer.rainbow /\ renderer.color = None) =>
        /\ Len(pixels) = Len(back(renderer.buffered_images)[2])
        /\ \A i \in 1..Len(pixels) :
             pixels[i] = back(renderer.buffered_images)[2][i]

\* a frame whose alpha is not 255 was copied as it is
C10_Witness ==
    /\ IsClock /\ TickOk /\ last.wrote
    /\ ~renderer.rainbow /\ renderer.color = None
    /\ last.loads # <<>>
    /\ pixels = back(renderer.buffered_images)[2]
    /\ pixels[4] # 255

(* C11 *)

\* the frame composited by the last tick
DrawnFrame == back(renderer.buffered_images)[2]

\* C11: a tick that composites with a tint leaves, for every pixel, alpha
\* at 255 whatever the alpha of the frame, and each of R, G, B at the frame's
\* channel times the matching tint component, truncated to 8 bits; with the
\* tint [1, 1, 1] the R, G, B bytes are those of the frame.
C11_TintComposite ==
    (IsClock /\ TickOk /\ last.wrote /\ last.tint # None) =>
        /\ Len(pixels) = Width * Height * 4
        /\ Len(DrawnFrame) = Width * Height * 4
        /\ \A p \in 0..(Width * Height - 1) :
             /\ pixels[4 * p + 4] = 255
             /\ \A k \in 1..3 :
                  LET c   == last.tint[1][k]
                      src == DrawnFrame[4 * p + k]
                      out == pixels[4 * p + k]
                  IN  /\ out \in 0..255
                      /\ out * c[2] <= src * c[1]
                      /\ src * c[1] < (out + 1) * c[2]
                      /\ c[1] = c[2] => out = src

\* FFFFFF: the tint is [1, 1, 1], the frame's alpha is not 255
C11_Witness ==
    /\ IsClock /\ TickOk /\ last.wrote
    /\ last.tint = Some(<< <<255, 255>>, <<255, 255>>, <<255, 255>> >>)
    /\ DrawnFrame[4] # 255
    /\ pixels[4] = 255
    /\ \A k \in 1..3 : pixels[k] = DrawnFrame[k] /\ pixels[k] > 0

(* C12 *)

\* C12: static image mode: into_renderer asks the image loader for the image
\* once; every render tick after it asks for nothing, leaves the output
\* buffer equal to that image, byte for byte, and leaves the stored image as
\* it was loaded.
C12_StaticLoadedOnce ==
    (background.kind = "StaticImage" /\ last.result = "Ok") =>
        /\ last.op = "into_renderer" =>
              /\ last.loads = <<[millis |-> -1, path |-> <<"a",".","p","n","g">>]>>
              /\ renderer.kind = "StaticImage"
        /\ last.op = "render" =>
              /\ last.loads = <<>>
              /\ last.wrote
              /\ renderer.kind = "StaticImage"
              /\ pixels = renderer.image
        /\ last.op # "init" =>
              renderer.image =
                  file_image(<<"a",".","p","n","g">>, Width, Height)

\* a static tick some time after the first one
C12_Witness ==
    /\ background.kind = "StaticImage"
    /\ last.op = "render" /\ last.result = "Ok"
    /\ elapsed >= 8
    /\ last.loads = <<>>
    /\ pixels = file_image(<<"a",".","p","n","g">>, Width, Height)
    /\ pixels # [i \in 1..(Width * Height * 4) |-> 0]

(* C13 *)

\* the entries pushed for the first n requests of a tick, the newest first
Pushed(reqs, n) ==
    [i \in 1..n |->
        <<reqs[n + 1 - i].millis,
          file_image(reqs[n + 1 - i].path, Width, Height)>>]

\* from back to front every slot is the one before plus step, modulo the
\* 12-hour cycle
AdjacentSlots(q, step) ==
    \A i \in 1..(Len(q) - 1) : q[i][1] = (q[i + 1][1] + step) % 43200000

\* the cache q2 is what is left of q after popping some entries off its back
\* and pushing, in order, the first n requests at its front
EvictedThenPushed(q, q2, reqs, n) ==
    \E kept \in 0..Len(q) : q2 = Pushed(reqs, n) \o SubSeq(q, 1, kept)

\* C13: render.rs: a render tick whose load fails returns the error and has
\* pushed an entry for every request before the failed one and none for the
\* failed one; the cache it leaves holds fewer than PRE_BUFFERED_IMAGES
\* entries, each slot the one behind it plus clock_step modulo the cycle.
\* A tick that returns Ok has pushed an entry for every request it made.
C13_FailedLoadKeepsCache ==
    [][(impl = "render" /\ last'.op = "render" /\ renderer'.kind = "ClockImage") =>
        LET q  == renderer.buffered_images
            q2 == renderer'.buffered_images
            n  == Len(last'.loads)
        IN  /\ last'.result \in {"Ok", "ImageError"}
            /\ last'.result = "Ok" => EvictedThenPushed(q, q2, last'.loads, n)
            /\ last'.result = "ImageError" =>
                  /\ n >= 1
                  /\ EvictedThenPushed(q, q2, last'.loads, n - 1)
                  /\ ~last'.wrote /\ pixels' = pixels
                  /\ Len(q2) < PRE_BUFFERED_IMAGES
                  /\ AdjacentSlots(q2, renderer.clock_step)]_vars

\* the third load of a tick failed after an eviction: two entries were
\* pushed in front of what the eviction left
C13_Witness ==
    /\ impl = "render" /\ IsClock
    /\ last.op = "render" /\ last.result = "ImageError"
    /\ elapsed > 0
    /\ Len(last.loads) = 3
    /\ Len(renderer.buffered_images) = PRE_BUFFERED_IMAGES - 1
    /\ renderer.buffered_images[1][1] = last.loads[2].millis
    /\ renderer.buffered_images[1][1] # last.loads[3].millis
    /\ AdjacentSlots(renderer.buffered_images, renderer.clock_step)

(* C14 *)

\* C14 as claimed: a render tick calls the image loader at most once.
C14_AtMostOneLoad ==
    last.op = "render" => Len(last.loads) <= 1

\* C14, amended: a render tick of main.rs calls the image loader at most
\* once; a render tick of render.rs calls it at most PRE_BUFFERED_IMAGES
\* times, once for every entry missing after the eviction.
C14_LoadsPerTick ==
    [][last'.op = "render" =>
        IF impl = "main" THEN Len(last'.loads) <= 1
        ELSE /\ Len(last'.loads) <= PRE_BUFFERED_IMAGES
             /\ (last'.result = "Ok" /\ renderer'.kind = "ClockImage") =>
                   \E kept \in 0..Len(renderer.buffered_images) :
                       /\ SubSeq(renderer'.buffered_images,
                                 Len(last'.loads) + 1, PRE_BUFFERED_IMAGES)
                            = SubSeq(renderer.buffered_images, 1, kept)
                       /\ Len(last'.loads) = PRE_BUFFERED_IMAGES - kept]_vars

\* the first tick of render.rs, on an empty cache, loads
\* PRE_BUFFERED_IMAGES frames
C14_Witness ==
    /\ impl = "render" /\ IsClock /\ TickOk
    /\ Len(last.loads) = PRE_BUFFERED_IMAGES
    /\ \A i \in 1..PRE_BUFFERED_IMAGES :
         renderer.buffered_images[i][1]
             = last.loads[PRE_BUFFERED_IMAGES + 1 - i].millis

(* C15 *)

\* the number of frames the last tick loaded
FramesLoaded(obs) ==
    IF obs.result = "ImageError" THEN Len(obs.loads) - 1 ELSE Len(obs.loads)

\* C15 as claimed: render.rs: a render tick writes the output buffer if and
\* only if it loaded at least one frame; a tick that loaded none leaves the
\* cache and the output buffer unchanged.
C15_WriteIffLoaded ==
    [][(impl = "render" /\ last'.op = "render") =>
        /\ last'.wrote <=> FramesLoaded(last') >= 1
        /\ ~last'.wrote => pixels' = pixels
        /\ FramesLoaded(last') = 0 =>
              (renderer' = renderer /\ pixels' = pixels)]_vars

\* C15, amended: render.rs: a render tick that returns Ok writes the output
\* buffer if and only if it called the image loader, and one that did not
\* leaves the cache and the output buffer unchanged; a render tick that
\* returns an error never writes the output buffer, whatever it loaded and
\* evicted before the failure.
C15_WriteIffLoadedOk ==
    [][(impl = "render" /\ last'.op = "render") =>
        /\ ~last'.wrote => pixels' = pixels
        /\ last'.result = "Ok" =>
              /\ last'.wrote <=> last'.loads # <<>>
              /\ last'.wrote =>
                    pixels' = composite(pixels,
                                  back(renderer'.buffered_images)[2], last'.tint)
              /\ last'.loads = <<>> =>
                    (renderer' = renderer /\ pixels' = pixels)
        /\ last'.result # "Ok" => ~last'.wrote]_vars

\* a tick of render.rs within the slot of the tick before: nothing loaded,
\* the output buffer still holds the frame drawn before
C15_Witness ==
    /\ impl = "render" /\ IsClock /\ TickOk
    /\ elapsed > 0
    /\ last.loads = <<>>
    /\ ~last.wrote
    /\ pixels # [i \in 1..(Width * Height * 4) |-> 0]

(* C16 *)

\* C16: render.rs: in every reachable state each entry's slot is the slot
\* of the entry behind it plus clock_step modulo 43_200_000; a render tick
\* pops entries off the back only and pushes at the front only, the first
\* pushed slot being the target slot when nothing was kept and the front
\* slot plus clock_step modulo 43_200_000 otherwise.
C16_AdjacentSlots ==
    /\ []((impl = "render" /\ IsClock) =>
            \A i \in 1..(Len(renderer.buffered_images) - 1) :
                renderer.buffered_images[i][1] =
                    (renderer.buffered_images[i + 1][1] + renderer.clock_step)
                        % 43200000)
    /\ [][(impl = "render" /\ last'.op = "render"
               /\ renderer'.kind = "ClockImage") =>
            LET q  == renderer.buffered_images
                q2 == renderer'.buffered_images
            IN  \E kept \in 0..Len(q), pushed \in 0..PRE_BUFFERED_IMAGES :
                  /\ Len(q2) = pushed + kept
                  /\ SubSeq(q2, pushed + 1, Len(q2)) = SubSeq(q, 1, kept)
                  /\ pushed > 0 =>
                        q2[pushed][1] =
                            IF kept = 0 THEN last'.target
                            ELSE (q[1][1] + renderer.clock_step) % 43200000]_vars

\* clock_step 7: the slots of a full cache run across the end of the cycle,
\* 43199996 followed by 3
C16_Witness ==
    /\ impl = "render" /\ IsClock /\ TickOk
    /\ renderer.clock_step = 7
    /\ Len(renderer.buffered_images) = PRE_BUFFERED_IMAGES
    /\ \E i \in 1..(PRE_BUFFERED_IMAGES - 1) :
         /\ renderer.buffered_images[i + 1][1] = 43199996
         /\ renderer.buffered_images[i][1] = 3

(* C17 *)

\* C17: in both renderers every slot stored in the cache lies in
\* [0, 43_200_000) and is a multiple of the clock_step in use.
C17_SlotsAreTimeSlots ==
    IsClock =>
        \A i \in 1..Len(renderer.buffered_images) :
            /\ renderer.buffered_images[i][1] >= 0
            /\ renderer.buffered_images[i][1] < 43200000
            /\ renderer.buffered_images[i][1] % renderer.clock_step = 0

(* C18 *)

\* the distance of two slots on the 12-hour cycle
CycleDistance(a, b) ==
    IF abs_diff(a, b) <= 43200000 - abs_diff(a, b) THEN abs_diff(a, b)
    ELSE 43200000 - abs_diff(a, b)

\* C18: main.rs, with a redraw at least once per clock step: after every
\* render tick in clock mode the back entry, the frame that is composited,
\* has a slot at most one clock_step away from the slot of the wall clock.
C18_BackTracksClock ==
    (impl = "main" /\ IsClock /\ TickOk) =>
        CycleDistance(back(renderer.buffered_images)[1], last.millis)
            <= renderer.clock_step

(* C19 *)

\* a render tick of the event loop has returned an error
RenderFailed ==
    impl = "main" /\ last.op = "render" /\ last.result = "ImageError"

\* C19: main.rs: when render returns an error in a tick of the event loop,
\* loop exit is asked for in that same tick, no further tick is rendered,
\* and the loop eventually ends.
C19_FatalLoadError ==
    /\ [](RenderFailed => exited)
    /\ [][RenderFailed => (renderer' = renderer /\ pixels' = pixels
                              /\ last' = last)]_vars
    /\ (RenderFailed ~> terminated)

\* the event loop has ended after a load failed in a tick
C19_Witness ==
    /\ RenderFailed
    /\ last.loads # <<>>
    /\ elapsed > 0
    /\ exited
    /\ terminated

(* C20 *)

\* C20: main.rs: in no render tick in clock mode is the look-ahead slot
\* smaller than the slot of the front entry it is subtracted from: the u32
\* subtraction of render does not underflow.
C20_NoUnderflow ==
    [][(/\ impl = "main"
        /\ renderer.kind = "ClockImage"
        /\ renderer.buffered_images # <<>>
        /\ last'.op = "render") =>
           last'.target >= front(renderer.buffered_images)[1]]_vars

====
